---- MODULE Spec2Model ----
(***************************************************************************)
(* Token-cost accounting of the X-post generation scripts.                 *)
(*                                                                         *)
(*   scripts/generate_posts_with_cache.py  URL-based generator   ("url")   *)
(*   scripts/dummy.py                      HTML-based generator  ("html")  *)
(*   scripts/simple_claude_api.py          API tester            ("api")   *)
(*                                                                         *)
(* Representation of numbers.  The scripts compute in Python floats; the   *)
(* model computes the same expressions in exact fixed-point arithmetic:    *)
(*   - a price is held in cents per million tokens (3.00 USD -> 300);      *)
(*   - an amount of money is held in units of 1/200000 USD, so that        *)
(*     tokens * price / 1000000 USD = tokens * price_in_cents / 500 units; *)
(*   - token counts range over multiples of 500, on which that quotient    *)
(*     is exact;                                                           *)
(*   - cost_reduction_percent is held as a fraction [num, den].            *)
(* Floating-point rounding is therefore not part of the model.             *)
(***************************************************************************)
EXTENDS Integers, FiniteSets, Sequences, TLC

VARIABLES
    script,          \* which of the three scripts is running
    cache_enabled,   \* generator field self.cache_enabled
    pricing,         \* generator field self.pricing
    html_len,        \* len(self.html_content) of the HTML-based generator
    html_words,      \* the words that occur in self.html_content
    last,            \* the last call of a cost calculator and what it returned
    fs,              \* the output directory and file, and how the save ended
    run              \* main(): its position, its environment, its exit code

vars == <<script, cache_enabled, pricing, html_len, html_words, last, fs, run>>

(***************************************************************************)
(* Bounds of the model.                                                    *)
(***************************************************************************)
MaxTokenSteps == 2     \* enumerated token counts are 0, 500, .., 500 * MaxTokenSteps
MaxHtmlBlocks == 2     \* HTML contents of 2000 * k (+ 0..3) characters, k up to this
MaxListLen == 1        \* lists of a results object have up to this many elements

TokenCounts == {500 * k : k \in 0..MaxTokenSteps}
HtmlLens == {2000 * k + r : k \in 1..MaxHtmlBlocks, r \in {0, 3}}

Scripts == {"url", "html", "api"}
Generators == {"url", "html"}

(***************************************************************************)
(* Price tables (cents per million tokens).                                *)
(***************************************************************************)
SonnetPrices ==
    [input_per_million |-> 300, output_per_million |-> 1500,
     cache_write_per_million |-> 375, cache_read_per_million |-> 30]

HaikuPrices ==
    [input_per_million |-> 80, output_per_million |-> 400,
     cache_write_per_million |-> 100, cache_read_per_million |-> 8]

\* Tables a changed configuration can hold: free of charge, and one on which
\* reading the cache costs more than plain input.
FreePrices ==
    [input_per_million |-> 0, output_per_million |-> 0,
     cache_write_per_million |-> 0, cache_read_per_million |-> 0]

InvertedPrices ==
    [input_per_million |-> 100, output_per_million |-> 400,
     cache_write_per_million |-> 125, cache_read_per_million |-> 300]

PriceTables == {SonnetPrices, HaikuPrices, FreePrices, InvertedPrices}

\* ClaudeAPITester.pricing: model name -> price table
api_pricing ==
    [m \in {"claude-3-7-sonnet-20241022", "claude-3-5-sonnet-20241022",
            "claude-3-5-haiku-20241022"} |->
        IF m = "claude-3-5-haiku-20241022" THEN HaikuPrices ELSE SonnetPrices]

\* model names a response can carry: the known ones and one that is not priced
ResponseModels == DOMAIN api_pricing \cup {"claude-unknown"}

estimated_cache_tokens == 20000

EmptyDict == <<>>

(***************************************************************************)
(* Arithmetic.                                                             *)
(***************************************************************************)
\* tokens * price / 1000000, in units of 1/200000 USD with price in cents
PerMillion(tokens, price) == (tokens * price) \div 500

\* a / b of Python: a fraction; a zero divisor raises ZeroDivisionError,
\* held as the fraction with den = 0
Divide(a, b) == IF b = 0 THEN [num |-> 0, den |-> 0] ELSE [num |-> a, den |-> b]

\* the literal 0 of Python as a fraction
ZeroFraction == [num |-> 0, den |-> 1]

(***************************************************************************)
(* Faulty variants of the generators' calculator, one plausible slip each. *)
(***************************************************************************)
faulty_calculate_costs(slip, enabled, prices, input_tokens, output_tokens) ==
    LET cache_cost ==
            IF enabled
            THEN PerMillion(input_tokens.cached_tokens,
                            IF slip = "cache_rate"
                            THEN prices.cache_write_per_million
                            ELSE prices.cache_read_per_million)
            ELSE 0
        input_cost ==
            IF enabled \/ slip = "no_cache_input"
            THEN PerMillion(input_tokens.non_cached_tokens, prices.input_per_million)
            ELSE PerMillion(input_tokens.total_input_tokens, prices.input_per_million)
        output_cost ==
            PerMillion(output_tokens,
                       IF slip = "output_rate" /\ ~enabled
                       THEN prices.input_per_million
                       ELSE prices.output_per_million)
        total_cost == cache_cost + input_cost + output_cost
        cost_without_cache ==
            PerMillion(IF slip = "counterfactual"
                       THEN input_tokens.non_cached_tokens
                       ELSE input_tokens.total_input_tokens,
                       prices.input_per_million)
            + output_cost
        cost_reduction ==
            IF enabled
            THEN (IF slip = "sign" THEN total_cost - cost_without_cache
                                   ELSE cost_without_cache - total_cost)
            ELSE 0
        cost_reduction_percent ==
            IF cost_without_cache > 0 \/ slip = "no_guard"
            THEN Divide(cost_reduction * 100, cost_without_cache)
            ELSE (IF slip = "else_hundred" THEN [num |-> 100, den |-> 1]
                                           ELSE ZeroFraction)
        monthly_savings == cost_reduction * (IF slip = "monthly_calls" THEN 30 ELSE 50)
        yearly_savings == monthly_savings * 12
    IN  [cache_cost |-> cache_cost,
         input_cost |-> input_cost,
         output_cost |-> output_cost,
         total_cost |-> total_cost,
         total_cost_jpy |-> total_cost * 150,
         cost_without_cache |-> cost_without_cache,
         cost_reduction |-> cost_reduction,
         cost_reduction_percent |-> cost_reduction_percent,
         monthly_savings_usd |-> monthly_savings,
         yearly_savings_usd |-> yearly_savings,
         monthly_savings_jpy |-> monthly_savings * 150,
         yearly_savings_jpy |-> yearly_savings * 150]

\* cached tokens billed at the cache-write rate
calculate_costs_cache_rate(enabled, prices, input_tokens, output_tokens) ==
    faulty_calculate_costs("cache_rate", enabled, prices, input_tokens, output_tokens)

\* the counterfactual forgets the cached tokens
calculate_costs_counterfactual(enabled, prices, input_tokens, output_tokens) ==
    faulty_calculate_costs("counterfactual", enabled, prices, input_tokens, output_tokens)

\* the percentage is divided without the zero guard
calculate_costs_no_guard(enabled, prices, input_tokens, output_tokens) ==
    faulty_calculate_costs("no_guard", enabled, prices, input_tokens, output_tokens)

\* the reduction is subtracted the wrong way round
calculate_costs_sign(enabled, prices, input_tokens, output_tokens) ==
    faulty_calculate_costs("sign", enabled, prices, input_tokens, output_tokens)

\* without caching the output is billed at the input rate
calculate_costs_output_rate(enabled, prices, input_tokens, output_tokens) ==
    faulty_calculate_costs("output_rate", enabled, prices, input_tokens, output_tokens)

\* a zero counterfactual reports a full reduction
calculate_costs_else_hundred(enabled, prices, input_tokens, output_tokens) ==
    faulty_calculate_costs("else_hundred", enabled, prices, input_tokens, output_tokens)

\* the monthly extrapolation assumes 30 calls
calculate_costs_monthly_calls(enabled, prices, input_tokens, output_tokens) ==
    faulty_calculate_costs("monthly_calls", enabled, prices, input_tokens, output_tokens)

\* without caching only the non-cached tokens are billed
calculate_costs_no_cache_input(enabled, prices, input_tokens, output_tokens) ==
    faulty_calculate_costs("no_cache_input", enabled, prices, input_tokens, output_tokens)

(***************************************************************************)
(* XPostGeneratorWithCache._calculate_costs (identical in both generators) *)
(***************************************************************************)
calculate_costs(enabled, prices, input_tokens, output_tokens) ==
    LET cache_cost ==
            IF enabled
            THEN PerMillion(input_tokens.cached_tokens, prices.cache_read_per_million)
            ELSE 0
        input_cost ==
            IF enabled
            THEN PerMillion(input_tokens.non_cached_tokens, prices.input_per_million)
            ELSE PerMillion(input_tokens.total_input_tokens, prices.input_per_million)
        output_cost == PerMillion(output_tokens, prices.output_per_million)
        total_cost == cache_cost + input_cost + output_cost
        cost_without_cache ==
            PerMillion(input_tokens.total_input_tokens, prices.input_per_million)
            + output_cost
        cost_reduction == IF enabled THEN cost_without_cache - total_cost ELSE 0
        cost_reduction_percent ==
            IF cost_without_cache > 0
            THEN Divide(cost_reduction * 100, cost_without_cache)
            ELSE ZeroFraction
        monthly_savings == cost_reduction * 50
        yearly_savings == monthly_savings * 12
    IN  [cache_cost |-> cache_cost,
         input_cost |-> input_cost,
         output_cost |-> output_cost,
         total_cost |-> total_cost,
         total_cost_jpy |-> total_cost * 150,
         cost_without_cache |-> cost_without_cache,
         cost_reduction |-> cost_reduction,
         cost_reduction_percent |-> cost_reduction_percent,
         monthly_savings_usd |-> monthly_savings,
         yearly_savings_usd |-> yearly_savings,
         monthly_savings_jpy |-> monthly_savings * 150,
         yearly_savings_jpy |-> yearly_savings * 150]

\* faulty variant: the total forgets the cache-write cost
api_calculate_costs_no_write(model, usage) ==
    IF model \notin DOMAIN api_pricing
    THEN [error |-> "Unknown model"]
    ELSE
    LET prices == api_pricing[model]
        input_cost == PerMillion(usage.input_tokens, prices.input_per_million)
        output_cost == PerMillion(usage.output_tokens, prices.output_per_million)
        cache_write_cost ==
            PerMillion(usage.cache_creation_input_tokens, prices.cache_write_per_million)
        cache_read_cost ==
            PerMillion(usage.cache_read_input_tokens, prices.cache_read_per_million)
        total_cost == input_cost + output_cost + cache_read_cost
    IN  [input_cost |-> input_cost,
         output_cost |-> output_cost,
         cache_write_cost |-> cache_write_cost,
         cache_read_cost |-> cache_read_cost,
         total_cost |-> total_cost,
         total_cost_jpy |-> total_cost * 150]

(***************************************************************************)
(* ClaudeAPITester._calculate_costs                                        *)
(***************************************************************************)
api_calculate_costs(model, usage) ==
    IF model \notin DOMAIN api_pricing
    THEN [error |-> "Unknown model"]
    ELSE
    LET prices == api_pricing[model]
        input_cost == PerMillion(usage.input_tokens, prices.input_per_million)
        output_cost == PerMillion(usage.output_tokens, prices.output_per_million)
        cache_write_cost ==
            PerMillion(usage.cache_creation_input_tokens, prices.cache_write_per_million)
        cache_read_cost ==
            PerMillion(usage.cache_read_input_tokens, prices.cache_read_per_million)
        total_cost == input_cost + output_cost + cache_write_cost + cache_read_cost
    IN  [input_cost |-> input_cost,
         output_cost |-> output_cost,
         cache_write_cost |-> cache_write_cost,
         cache_read_cost |-> cache_read_cost,
         total_cost |-> total_cost,
         total_cost_jpy |-> total_cost * 150]

(***************************************************************************)
(* Token-usage records built by the simulated API calls.                   *)
(***************************************************************************)
\* faulty variant: the user-input tokens are left out of the non-cached sum
url_input_tokens_short(enabled) ==
    [cached_tokens |-> IF enabled THEN estimated_cache_tokens ELSE 0,
     web_search_tokens |-> 15000,
     web_fetch_tokens |-> 3500,
     user_input_tokens |-> 500,
     non_cached_tokens |-> 18500,
     total_input_tokens |-> 39000]

\* generate_posts_with_cache.py: every count but cached_tokens is a literal
url_input_tokens(enabled) ==
    [cached_tokens |-> IF enabled THEN estimated_cache_tokens ELSE 0,
     web_search_tokens |-> 15000,
     web_fetch_tokens |-> 3500,
     user_input_tokens |-> 500,
     non_cached_tokens |-> 19000,
     total_input_tokens |-> 39000]

\* dummy.py: the HTML part is len(html_content) // 4
html_input_tokens(enabled, len) ==
    LET html_fetch_tokens == len \div 4
    IN  [cached_tokens |-> IF enabled THEN estimated_cache_tokens ELSE 0,
         web_search_tokens |-> 15000,
         html_content_tokens |-> html_fetch_tokens,
         user_input_tokens |-> 500,
         non_cached_tokens |-> 15500 + html_fetch_tokens,
         total_input_tokens |->
             15500 + html_fetch_tokens
             + (IF enabled THEN estimated_cache_tokens ELSE 0)]

simulated_output_tokens == 2000

\* what _calculate_costs does to the usage record it is given: it only reads it
input_tokens_after_calculate_costs(input_tokens) == input_tokens

(***************************************************************************)
(* Content classifier of _generate_dummy_response.  A text is held as the  *)
(* set of the words that occur in it, as written; "kw in text.lower()" is  *)
(* "kw is the lower case of one of its words".                             *)
(***************************************************************************)
HtmlWordPool ==
    {"dotfiles", "PowerShell", "GitHub", "Actions", "python", "JavaScript",
     "kubernetes"}

DomainLabelPool == {"SIOS", "github", "Qiita", "example"}

\* str.lower() on the words of the pools
Lower(w) ==
    CASE w = "PowerShell" -> "powershell"
      [] w = "GitHub" -> "github"
      [] w = "Actions" -> "actions"
      [] w = "JavaScript" -> "javascript"
      [] w = "SIOS" -> "sios"
      [] w = "Qiita" -> "qiita"
      [] OTHER -> w

LowerText(words) == {Lower(w) : w \in words}

DotfilesTemplates ==
    [template |-> "dotfiles", overall_rating |-> "A",
     implementation_level |-> "full", target_audience |-> "intermediate"]

GithubTemplates ==
    [template |-> "github", overall_rating |-> "A",
     implementation_level |-> "full", target_audience |-> "intermediate"]

LanguageTemplates ==
    [template |-> "language", overall_rating |-> "B",
     implementation_level |-> "basic", target_audience |-> "beginner-intermediate"]

QiitaTemplates ==
    [template |-> "qiita", overall_rating |-> "B",
     implementation_level |-> "basic", target_audience |-> "beginner-intermediate"]

GenericTemplates ==
    [template |-> "generic", overall_rating |-> "B",
     implementation_level |-> "basic", target_audience |-> "intermediate"]

\* faulty variant: the github branch is tested before the dotfiles branch
html_generate_dummy_response_reordered(words) ==
    LET content_lower == LowerText(words)
    IN  IF "github" \in content_lower \/ "actions" \in content_lower
        THEN GithubTemplates
        ELSE IF "dotfiles" \in content_lower \/ "powershell" \in content_lower
        THEN DotfilesTemplates
        ELSE IF "python" \in content_lower \/ "javascript" \in content_lower
        THEN LanguageTemplates
        ELSE GenericTemplates

\* dummy.py: _generate_dummy_response, over self.html_content
html_generate_dummy_response(words) ==
    LET content_lower == LowerText(words)
    IN  IF "dotfiles" \in content_lower \/ "powershell" \in content_lower
        THEN DotfilesTemplates
        ELSE IF "github" \in content_lower \/ "actions" \in content_lower
        THEN GithubTemplates
        ELSE IF "python" \in content_lower \/ "javascript" \in content_lower
        THEN LanguageTemplates
        ELSE GenericTemplates

\* generate_posts_with_cache.py: _generate_dummy_response(url), over the
\* domain (netloc) of the URL
url_generate_dummy_response(url) ==
    LET domain_lower == LowerText(url.domain)
    IN  IF "sios" \in domain_lower THEN DotfilesTemplates
        ELSE IF "github" \in domain_lower THEN GithubTemplates
        ELSE IF "qiita" \in domain_lower THEN QiitaTemplates
        ELSE GenericTemplates

(***************************************************************************)
(* URLs: the scheme prefix and the labels of the domain.                   *)
(***************************************************************************)
Schemes == {"https", "http", "ftp", ""}

Urls == [scheme : Schemes, domain : SUBSET DomainLabelPool]

\* the URLs of the accounting runs
SpecUrls ==
    {[scheme |-> "https", domain |-> {"SIOS", "example"}],
     [scheme |-> "http", domain |-> {"example"}]}

\* the HTML content (words) of the accounting runs
SpecHtmlWords == {{"GitHub", "PowerShell"}}

(***************************************************************************)
(* The dict returned by _simulate_api_call.                                *)
(***************************************************************************)
\* faulty variant: the usage record comes back with its aggregate recomputed
simulate_result_renormalised(enabled, prices, input_tokens, output_tokens, content) ==
    [content |-> content,
     token_usage |->
        [input_tokens |->
            [input_tokens EXCEPT !.total_input_tokens =
                input_tokens.cached_tokens + input_tokens.non_cached_tokens + 1],
         output_tokens |-> output_tokens],
     costs |-> calculate_costs(enabled, prices, input_tokens, output_tokens),
     cache_used |-> enabled,
     api_call_simulated |-> TRUE,
     processing_time |-> "now"]

simulate_result(enabled, prices, input_tokens, output_tokens, content) ==
    [content |-> content,
     token_usage |->
        [input_tokens |-> input_tokens_after_calculate_costs(input_tokens),
         output_tokens |-> output_tokens],
     costs |-> calculate_costs(enabled, prices, input_tokens, output_tokens),
     cache_used |-> enabled,
     api_call_simulated |-> TRUE,
     processing_time |-> "now"]

(***************************************************************************)
(* save_to_file: the metadata header it writes (amounts before formatting) *)
(***************************************************************************)
\* dict.get(key, default)
Get(d, k, default) == IF k \in DOMAIN d THEN d[k] ELSE default

\* faulty variant: the reduction is converted at another exchange rate
frontmatter_other_rate(source, metadata) ==
    LET costs == Get(metadata, "costs", EmptyDict)
        token_usage == Get(metadata, "token_usage", EmptyDict)
        input_tokens == Get(token_usage, "input_tokens", EmptyDict)
    IN  [source |-> source,
         prompt_cache |->
            [enabled |-> Get(metadata, "cache_used", FALSE),
             cached_tokens |-> Get(input_tokens, "cached_tokens", 0),
             estimated_cache_size |-> estimated_cache_tokens,
             cache_efficiency |->
                IF estimated_cache_tokens > 0
                THEN Divide(Get(input_tokens, "cached_tokens", 0) * 100,
                            estimated_cache_tokens)
                ELSE ZeroFraction],
         costs_usd |->
            [cache_cost |-> Get(costs, "cache_cost", 0),
             input_cost |-> Get(costs, "input_cost", 0),
             output_cost |-> Get(costs, "output_cost", 0),
             total_cost |-> Get(costs, "total_cost", 0),
             cost_without_cache |-> Get(costs, "cost_without_cache", 0),
             cost_reduction |-> Get(costs, "cost_reduction", 0)],
         costs_jpy |->
            [total_cost |-> Get(costs, "total_cost_jpy", 0),
             cost_reduction |-> Get(costs, "cost_reduction", 0) * 140,
             monthly_savings |-> Get(costs, "monthly_savings_jpy", 0),
             yearly_savings |-> Get(costs, "yearly_savings_jpy", 0)],
         cost_efficiency |->
            [reduction_percent |-> Get(costs, "cost_reduction_percent", ZeroFraction),
             monthly_usage_assumption |-> 50,
             yearly_usage_assumption |-> 600],
         token_usage |->
            [cached |-> Get(input_tokens, "cached_tokens", 0),
             web_search |-> Get(input_tokens, "web_search_tokens", 0),
             web_fetch |-> Get(input_tokens, "web_fetch_tokens", 0),
             user_input |-> Get(input_tokens, "user_input_tokens", 0),
             non_cached_total |-> Get(input_tokens, "non_cached_tokens", 0),
             total |-> Get(input_tokens, "total_input_tokens", 0),
             output |-> Get(token_usage, "output_tokens", 0),
             processing_efficiency |->
                Divide(Get(token_usage, "output_tokens", 0),
                       Get(input_tokens, "total_input_tokens", 1))],
         api_call_simulated |-> Get(metadata, "api_call_simulated", TRUE)]

frontmatter(source, metadata) ==
    LET costs == Get(metadata, "costs", EmptyDict)
        token_usage == Get(metadata, "token_usage", EmptyDict)
        input_tokens == Get(token_usage, "input_tokens", EmptyDict)
    IN  [source |-> source,
         prompt_cache |->
            [enabled |-> Get(metadata, "cache_used", FALSE),
             cached_tokens |-> Get(input_tokens, "cached_tokens", 0),
             estimated_cache_size |-> estimated_cache_tokens,
             cache_efficiency |->
                IF estimated_cache_tokens > 0
                THEN Divide(Get(input_tokens, "cached_tokens", 0) * 100,
                            estimated_cache_tokens)
                ELSE ZeroFraction],
         costs_usd |->
            [cache_cost |-> Get(costs, "cache_cost", 0),
             input_cost |-> Get(costs, "input_cost", 0),
             output_cost |-> Get(costs, "output_cost", 0),
             total_cost |-> Get(costs, "total_cost", 0),
             cost_without_cache |-> Get(costs, "cost_without_cache", 0),
             cost_reduction |-> Get(costs, "cost_reduction", 0)],
         costs_jpy |->
            [total_cost |-> Get(costs, "total_cost_jpy", 0),
             cost_reduction |-> Get(costs, "cost_reduction", 0) * 150,
             monthly_savings |-> Get(costs, "monthly_savings_jpy", 0),
             yearly_savings |-> Get(costs, "yearly_savings_jpy", 0)],
         cost_efficiency |->
            [reduction_percent |-> Get(costs, "cost_reduction_percent", ZeroFraction),
             monthly_usage_assumption |-> 50,
             yearly_usage_assumption |-> 600],
         token_usage |->
            [cached |-> Get(input_tokens, "cached_tokens", 0),
             web_search |-> Get(input_tokens, "web_search_tokens", 0),
             web_fetch |-> Get(input_tokens, "web_fetch_tokens", 0),
             user_input |-> Get(input_tokens, "user_input_tokens", 0),
             non_cached_total |-> Get(input_tokens, "non_cached_tokens", 0),
             total |-> Get(input_tokens, "total_input_tokens", 0),
             output |-> Get(token_usage, "output_tokens", 0),
             processing_efficiency |->
                Divide(Get(token_usage, "output_tokens", 0),
                       Get(input_tokens, "total_input_tokens", 1))],
         api_call_simulated |-> Get(metadata, "api_call_simulated", TRUE)]

\* faults the file system can answer with while saving
FsFaults == {"none", "mkdir", "write"}

NoFile == [written |-> FALSE]

\* how a call of save_to_file ended, next to the arguments it was given
Saved(dir, file, outcome, has_content, has_filename, source) ==
    [dir |-> dir, file |-> file, outcome |-> outcome,
     args |-> [content |-> has_content, filename |-> has_filename,
               source |-> source]]

\* faulty variant: the output directory is made before the arguments are
\* looked at
save_to_file_mkdir_first(f, has_content, has_filename, source, content, metadata, fault) ==
    IF fault = "mkdir"
    THEN Saved(f.dir, f.file, "OSError", has_content, has_filename, source)
    ELSE IF ~has_content \/ ~has_filename \/ source = ""
    THEN Saved(TRUE, f.file, "ValueError", has_content, has_filename, source)
    ELSE IF frontmatter(source, metadata).token_usage.processing_efficiency.den = 0
    THEN Saved(TRUE, f.file, "ZeroDivisionError", has_content, has_filename, source)
    ELSE IF fault = "write"
    THEN Saved(TRUE, f.file, "OSError", has_content, has_filename, source)
    ELSE Saved(TRUE,
               [written |-> TRUE,
                frontmatter |-> frontmatter(source, metadata),
                content |-> content],
               "saved", has_content, has_filename, source)

\* save_to_file(content, filename, source, metadata) on the file system f:
\* the file system afterwards, with the outcome of the call
save_to_file(f, has_content, has_filename, source, content, metadata, fault) ==
    IF ~has_content \/ ~has_filename \/ source = ""
    THEN Saved(f.dir, f.file, "ValueError", has_content, has_filename, source)
    ELSE IF fault = "mkdir"
    THEN Saved(f.dir, f.file, "OSError", has_content, has_filename, source)
    ELSE IF frontmatter(source, metadata).token_usage.processing_efficiency.den = 0
    THEN Saved(TRUE, f.file, "ZeroDivisionError", has_content, has_filename, source)
    ELSE IF fault = "write"
    THEN Saved(TRUE, f.file, "OSError", has_content, has_filename, source)
    ELSE Saved(TRUE,
               [written |-> TRUE,
                frontmatter |-> frontmatter(source, metadata),
                content |-> content],
               "saved", has_content, has_filename, source)

(***************************************************************************)
(* Environment of main() of the HTML-based script.                         *)
(***************************************************************************)
HtmlFileStates == {"unset", "missing", "empty", "unreadable", "ok"}
PromptFileStates == {"missing", "empty", "unreadable", "ok"}

\* gen_fault: an exception is raised inside the try block of the generation
MainEnvs ==
    [html_file : HtmlFileStates, prompt : PromptFileStates, fault : FsFaults,
     gen_fault : BOOLEAN]

\* Path.exists / open / read / strip of a file in the given state: the
\* exception _load_html_content and _load_system_prompt_from_file end with
load_outcome(file_state) ==
    CASE file_state = "missing" -> "FileNotFoundError"
      [] file_state = "empty" -> "ValueError"
      [] file_state = "unreadable" -> "PermissionError"
      [] OTHER -> "loaded"

\* XPostGeneratorWithCache.__init__ of dummy.py: HTML file first, then the
\* system prompt
html_generator_init(env) ==
    IF env.html_file = "unset" THEN "ValueError"
    ELSE IF load_outcome(env.html_file) # "loaded" THEN load_outcome(env.html_file)
    ELSE IF load_outcome(env.prompt) # "loaded" THEN load_outcome(env.prompt)
    ELSE "constructed"

\* main() of dummy.py: the try around the constructor
html_main_init_exit(init_outcome) ==
    CASE init_outcome = "FileNotFoundError" -> 3
      [] init_outcome = "ValueError" -> 1
      [] OTHER -> 99

(***************************************************************************)
(* Environment of main() of the URL-based script.                          *)
(***************************************************************************)
\* faulty variant: any non-empty URL passes
valid_url_any_scheme(url) == url.scheme # ""

\* "url and url.startswith(('http://', 'https://'))"
valid_url(url) == url.scheme \in {"http", "https"}

\* https://tech-lab.sios.jp/archives/48173
DefaultUrl == [scheme |-> "https", domain |-> {"sios"}]

FtpUrl == [scheme |-> "ftp", domain |-> {"github"}]

EmptyUrl == [scheme |-> "", domain |-> {}]

\* the values of the URL environment variable; unset and "" are both falsy
\* and both held as the empty URL
MainUrls == {EmptyUrl} \cup SpecUrls \cup {FtpUrl}

UrlMainEnvs ==
    [url : MainUrls, prompt : PromptFileStates, fault : FsFaults,
     gen_fault : BOOLEAN]

\* XPostGeneratorWithCache.__init__ of generate_posts_with_cache.py
url_generator_init(env) ==
    IF load_outcome(env.prompt) # "loaded" THEN load_outcome(env.prompt)
    ELSE "constructed"

\* main() of generate_posts_with_cache.py: the try around the constructor
url_main_init_exit(init_outcome) ==
    CASE init_outcome = "FileNotFoundError" -> 3
      [] OTHER -> 99

\* faulty variant: main goes on to save whatever the generation returned
result_has_error_ignored(call) == FALSE

\* main(): "error" in result
result_has_error(call) == call.outcome = "error"

(***************************************************************************)
(* State machine.                                                          *)
(***************************************************************************)
\* no main() is running and nothing was saved: the object is driven by calls
Idle == run.pc = "idle" /\ fs.outcome = "none"

FreshFs == [dir |-> FALSE, file |-> NoFile, outcome |-> "none"]

InitCommon ==
    /\ cache_enabled = TRUE
    /\ pricing = SonnetPrices
    /\ last = [op |-> "none"]
    /\ fs = FreshFs
    /\ run = [pc |-> "idle"]

Init ==
    /\ script \in Scripts
    /\ html_len \in (IF script = "html" THEN HtmlLens ELSE {0})
    /\ html_words \in (IF script = "html" THEN SpecHtmlWords ELSE {{}})
    /\ InitCommon

\* self.cache_enabled is a plain field: "set to True in production"
SetCacheEnabled(b) ==
    /\ Idle
    /\ script \in Generators
    /\ cache_enabled' = b
    /\ UNCHANGED <<script, pricing, html_len, html_words, last, fs, run>>

\* self.pricing is a setting kept apart because the prices change
SetPricing(p) ==
    /\ Idle
    /\ script \in Generators
    /\ pricing' = p
    /\ UNCHANGED <<script, cache_enabled, html_len, html_words, last, fs, run>>

GenCall(op, input_tokens, output_tokens) ==
    [op |-> op,
     outcome |-> "returned",
     cache_enabled |-> cache_enabled,
     pricing |-> pricing,
     input_tokens |-> input_tokens,
     output_tokens |-> output_tokens,
     costs |-> calculate_costs(cache_enabled, pricing, input_tokens, output_tokens)]

\* the call record of a simulated API call (source: the URL it was given, or
\* the loaded HTML content) together with the dict it returned
SimCall(op, source, input_tokens, content) ==
    [op |-> op,
     outcome |-> "returned",
     source |-> source,
     cache_enabled |-> cache_enabled,
     pricing |-> pricing,
     input_tokens |-> input_tokens,
     output_tokens |-> simulated_output_tokens,
     costs |-> calculate_costs(cache_enabled, pricing, input_tokens,
                               simulated_output_tokens),
     result |-> simulate_result(cache_enabled, pricing, input_tokens,
                                simulated_output_tokens, content)]

\* XPostGeneratorWithCache._simulate_api_call(url), URL-based generator
SimulateApiCallUrl(url) ==
    /\ Idle
    /\ script = "url"
    /\ last' = SimCall("simulate", url, url_input_tokens(cache_enabled),
                       url_generate_dummy_response(url))
    /\ UNCHANGED <<script, cache_enabled, pricing, html_len, html_words, fs, run>>

\* XPostGeneratorWithCache._simulate_api_call(), HTML-based generator
SimulateApiCallHtml ==
    /\ Idle
    /\ script = "html"
    /\ html_len > 0
    /\ last' = SimCall("simulate", "html_content",
                       html_input_tokens(cache_enabled, html_len),
                       html_generate_dummy_response(html_words))
    /\ UNCHANGED <<script, cache_enabled, pricing, html_len, html_words, fs, run>>

\* the generation result: the simulated result with the processing time added
Generated(call) ==
    [call EXCEPT !.result =
        [k \in DOMAIN call.result \cup {"processing_time_seconds"} |->
            IF k = "processing_time_seconds" THEN "elapsed" ELSE call.result[k]]]

\* "content": None
NoneContent == [template |-> "None"]

\* the dict generate_posts returns from its except clause
ErrorResult(source) ==
    [op |-> "generate",
     outcome |-> "error",
     source |-> source,
     result |-> [content |-> NoneContent, error |-> "str(e)",
                 error_type |-> "Exception",
                 processing_time_seconds |-> "elapsed"]]

\* generate_posts(url): what the call ends with; fault: an exception is
\* raised inside its try block
url_generate_posts(url, fault) ==
    IF ~valid_url(url)
    THEN [op |-> "generate", outcome |-> "ValueError", source |-> url]
    ELSE IF fault THEN ErrorResult(url)
    ELSE Generated(SimCall("generate", url, url_input_tokens(cache_enabled),
                           url_generate_dummy_response(url)))

\* generate_posts_from_html(): what the call ends with
html_generate_posts(fault) ==
    IF fault THEN ErrorResult("html_content")
    ELSE Generated(SimCall("generate", "html_content",
                           html_input_tokens(cache_enabled, html_len),
                           html_generate_dummy_response(html_words)))

\* XPostGeneratorWithCache.generate_posts(url), URL-based generator
GeneratePosts(url, fault) ==
    /\ Idle
    /\ script = "url"
    /\ last' = url_generate_posts(url, fault)
    /\ UNCHANGED <<script, cache_enabled, pricing, html_len, html_words, fs, run>>

\* XPostGeneratorWithCache.generate_posts_from_html(), HTML-based generator
GeneratePostsFromHtml(fault) ==
    /\ Idle
    /\ script = "html"
    /\ html_len > 0
    /\ last' = html_generate_posts(fault)
    /\ UNCHANGED <<script, cache_enabled, pricing, html_len, html_words, fs, run>>

\* _calculate_costs applied to a usage record given by its caller; the record
\* is one whose aggregates are what their comments say they are:
\* total_input_tokens = cached_tokens + non_cached_tokens
CalculateCostsCall(cached, non_cached, output_tokens) ==
    /\ Idle
    /\ script \in Generators
    /\ last' = GenCall("calculate",
                       [cached_tokens |-> cached,
                        non_cached_tokens |-> non_cached,
                        total_input_tokens |-> cached + non_cached],
                       output_tokens)
    /\ UNCHANGED <<script, cache_enabled, pricing, html_len, html_words, fs, run>>

\* ClaudeAPITester._extract_metadata(response); neither it nor the calculator
\* has a raise statement: the call returns its metadata
ExtractMetadata(model, has_usage, usage) ==
    /\ Idle
    /\ script = "api"
    /\ last' = [op |-> "extract_metadata",
                outcome |-> "returned",
                model |-> model,
                usage |-> IF has_usage THEN usage ELSE EmptyDict,
                costs |-> IF has_usage THEN api_calculate_costs(model, usage)
                          ELSE EmptyDict]
    /\ UNCHANGED <<script, cache_enabled, pricing, html_len, html_words, fs, run>>

\* the tests of run_all_tests, in the order it calls them
TestNames == <<"basic_message", "system_prompt", "prompt_caching">>

\* what the API answers a test with: an exception, a response of the model
\* asked for, a response naming a model without prices, a response without
\* usage
ResponseKinds == {"failed", "ok", "unknown_model", "no_usage"}

TestUsage ==
    [input_tokens |-> 500, output_tokens |-> 1000,
     cache_creation_input_tokens |-> 0, cache_read_input_tokens |-> 500]

\* _extract_metadata(response): the usage and costs of the metadata
extract_metadata(model, has_usage, usage) ==
    [model |-> model,
     usage |-> IF has_usage THEN usage ELSE EmptyDict,
     costs |-> IF has_usage THEN api_calculate_costs(model, usage)
               ELSE EmptyDict]

\* test_basic_message, test_with_system_prompt, test_prompt_caching: the
\* dict each returns
test_result(kind) ==
    IF kind = "failed"
    THEN [success |-> FALSE, error |-> "str(e)", error_type |-> "Exception"]
    ELSE [success |-> TRUE,
          response_content |-> "text",
          metadata |->
            extract_metadata(IF kind = "unknown_model" THEN "claude-unknown"
                             ELSE "claude-3-5-sonnet-20241022",
                             kind # "no_usage", TestUsage),
          raw_response |-> "response"]

\* run_all_tests(model): the three tests, then the summary over the
\* successful ones, which looks up usage["input_tokens"],
\* usage["output_tokens"] and costs["total_cost"]
run_all_tests(kinds) ==
    LET tests == [n \in DOMAIN kinds |-> test_result(kinds[n])]
        successful == {n \in DOMAIN tests : tests[n].success}
        Total(Of(_)) ==
            LET part(n) == IF n \in successful THEN Of(tests[n].metadata) ELSE 0
            IN  part("basic_message") + part("system_prompt") + part("prompt_caching")
        input_of(md) == md.usage.input_tokens
        output_of(md) == md.usage.output_tokens
        cost_of(md) == md.costs.total_cost
    IN  IF \E n \in successful :
              \/ "input_tokens" \notin DOMAIN tests[n].metadata.usage
              \/ "output_tokens" \notin DOMAIN tests[n].metadata.usage
              \/ "total_cost" \notin DOMAIN tests[n].metadata.costs
        THEN [op |-> "run_all_tests", outcome |-> "KeyError",
              calls |-> TestNames, kinds |-> kinds]
        ELSE [op |-> "run_all_tests", outcome |-> "returned",
              calls |-> TestNames, kinds |-> kinds,
              results |-> [model |-> "claude-3-5-sonnet-20241022",
                           tests |-> tests],
              summary |-> [successful_tests |-> Cardinality(successful),
                           total_input_tokens |-> Total(input_of),
                           total_output_tokens |-> Total(output_of),
                           total_cost |-> Total(cost_of)]]

\* ClaudeAPITester.run_all_tests(model)
RunAllTests(kinds) ==
    /\ Idle
    /\ script = "api"
    /\ last' = run_all_tests(kinds)
    /\ UNCHANGED <<script, cache_enabled, pricing, html_len, html_words, fs, run>>

\* there is a generation result to save
HasResult == last.op \in {"simulate", "generate"} /\ last.outcome = "returned"

\* save_to_file(content, filename, url or html_file_path, metadata) called on
\* a result, on a fresh output path or over the file of an earlier save; a
\* run of calls ends with its saves
SaveToFile(has_content, has_filename, source, with_metadata, fault) ==
    /\ run.pc = "idle"
    /\ fs.outcome \in {"none", "saved"}
    /\ script \in Generators
    /\ HasResult
    /\ fs' = save_to_file(fs, has_content, has_filename, source,
                          last.result.content,
                          IF with_metadata THEN last.result ELSE EmptyDict,
                          fault)
    /\ UNCHANGED <<script, cache_enabled, pricing, html_len, html_words, last, run>>

\* main() of dummy.py up to the constructor: HTML_FILE and FILENAME are read;
\* a process runs main() from its start and runs nothing else
HtmlMainStart(env) ==
    /\ Idle
    /\ script = "html"
    /\ last.op = "none" /\ cache_enabled = TRUE /\ pricing = SonnetPrices
    /\ run' = IF env.html_file = "unset"
              THEN [pc |-> "done", env |-> env, init |-> "not_called",
                    exit_code |-> 1]
              ELSE [pc |-> "init", env |-> env, init |-> "not_called"]
    /\ UNCHANGED <<script, cache_enabled, pricing, html_len, html_words, last, fs>>

\* main(): generator = XPostGeneratorWithCache() and its except clauses
HtmlMainInit ==
    /\ script = "html"
    /\ run.pc = "init"
    /\ run' = IF html_generator_init(run.env) = "constructed"
              THEN [pc |-> "generate", env |-> run.env, init |-> "constructed"]
              ELSE [pc |-> "done", env |-> run.env,
                    init |-> html_generator_init(run.env),
                    exit_code |-> html_main_init_exit(html_generator_init(run.env))]
    /\ UNCHANGED <<script, cache_enabled, pricing, html_len, html_words, last, fs>>

\* main(): result = generator.generate_posts_from_html() and the check of
\* "error" in result
HtmlMainGenerate ==
    /\ script = "html"
    /\ run.pc = "generate"
    /\ last' = html_generate_posts(run.env.gen_fault)
    /\ run' = IF result_has_error(last')
              THEN [pc |-> "done", env |-> run.env, init |-> run.init,
                    exit_code |-> 99]
              ELSE [pc |-> "save", env |-> run.env, init |-> run.init]
    /\ UNCHANGED <<script, cache_enabled, pricing, html_len, html_words, fs>>

\* main(): generator.save_to_file(result["content"], filename, html_file,
\* result); an exception of it reaches "except Exception" and returns 99
HtmlMainSave ==
    /\ script = "html"
    /\ run.pc = "save"
    /\ fs' = save_to_file(fs, last.result.content # NoneContent, TRUE, "html_file",
                          last.result.content, last.result, run.env.fault)
    /\ run' = [pc |-> "done", env |-> run.env, init |-> run.init,
               exit_code |-> IF fs'.outcome = "saved" THEN 0 ELSE 99]
    /\ UNCHANGED <<script, cache_enabled, pricing, html_len, html_words, last>>

\* main() of generate_posts_with_cache.py up to the constructor: URL and
\* FILENAME are read, an unset URL becomes the default, the scheme is checked
UrlMainStart(env) ==
    /\ Idle
    /\ script = "url"
    /\ last.op = "none" /\ cache_enabled = TRUE /\ pricing = SonnetPrices
    /\ LET url == IF env.url = EmptyUrl THEN DefaultUrl ELSE env.url
       IN  run' = IF ~valid_url(url)
                  THEN [pc |-> "done", env |-> env, url |-> url,
                        init |-> "not_called", exit_code |-> 1]
                  ELSE [pc |-> "init", env |-> env, url |-> url,
                        init |-> "not_called"]
    /\ UNCHANGED <<script, cache_enabled, pricing, html_len, html_words, last, fs>>

\* main(): generator = XPostGeneratorWithCache() and its except clauses
UrlMainInit ==
    /\ script = "url"
    /\ run.pc = "init"
    /\ run' = IF url_generator_init(run.env) = "constructed"
              THEN [run EXCEPT !.pc = "generate", !.init = "constructed"]
              ELSE [pc |-> "done", env |-> run.env, url |-> run.url,
                    init |-> url_generator_init(run.env),
                    exit_code |-> url_main_init_exit(url_generator_init(run.env))]
    /\ UNCHANGED <<script, cache_enabled, pricing, html_len, html_words, last, fs>>

\* main(): result = generator.generate_posts(url) and the check of "error" in
\* result; a ValueError of generate_posts reaches "except Exception"
UrlMainGenerate ==
    /\ script = "url"
    /\ run.pc = "generate"
    /\ last' = url_generate_posts(run.url, run.env.gen_fault)
    /\ run' = IF result_has_error(last') \/ last'.outcome = "ValueError"
              THEN [pc |-> "done", env |-> run.env, url |-> run.url,
                    init |-> run.init, exit_code |-> 99]
              ELSE [run EXCEPT !.pc = "save"]
    /\ UNCHANGED <<script, cache_enabled, pricing, html_len, html_words, fs>>

\* main(): generator.save_to_file(result["content"], filename, url, result);
\* an exception of it reaches "except Exception" and returns 99
UrlMainSave ==
    /\ script = "url"
    /\ run.pc = "save"
    /\ fs' = save_to_file(fs, last.result.content # NoneContent, TRUE, "url",
                          last.result.content, last.result, run.env.fault)
    /\ run' = [pc |-> "done", env |-> run.env, url |-> run.url,
               init |-> run.init,
               exit_code |-> IF fs'.outcome = "saved" THEN 0 ELSE 99]
    /\ UNCHANGED <<script, cache_enabled, pricing, html_len, html_words, last>>

UsageFields ==
    {"input_tokens", "output_tokens", "cache_creation_input_tokens",
     "cache_read_input_tokens"}

\* usage objects with one negative count; nothing in the scripts checks the
\* sign of what a response carries
NegativeUsages ==
    {[k \in UsageFields |-> IF k = f THEN -500 ELSE n] :
        f \in UsageFields, n \in {0, 500}}

ApiUsages ==
    [input_tokens : TokenCounts,
     output_tokens : TokenCounts,
     cache_creation_input_tokens : TokenCounts,
     cache_read_input_tokens : TokenCounts] \cup NegativeUsages

Next ==
    \/ \E b \in BOOLEAN : SetCacheEnabled(b)
    \/ \E p \in PriceTables : SetPricing(p)
    \/ \E url \in SpecUrls : SimulateApiCallUrl(url)
    \/ SimulateApiCallHtml
    \/ \E url \in SpecUrls \cup {FtpUrl, EmptyUrl}, fault \in BOOLEAN :
            GeneratePosts(url, fault)
    \/ \E fault \in BOOLEAN : GeneratePostsFromHtml(fault)
    \/ \E c \in TokenCounts \cup {estimated_cache_tokens},
          n \in TokenCounts \cup {19000},
          o \in {0, simulated_output_tokens} :
            CalculateCostsCall(c, n, o)
    \/ \E m \in ResponseModels, h \in BOOLEAN, u \in ApiUsages :
            ExtractMetadata(m, h, u)
    \/ \E hc \in BOOLEAN, hf \in BOOLEAN, src \in {"", "source"},
          wm \in BOOLEAN, fault \in FsFaults :
            SaveToFile(hc, hf, src, wm, fault)
    \/ \E env \in MainEnvs : HtmlMainStart(env)
    \/ HtmlMainInit
    \/ HtmlMainGenerate
    \/ HtmlMainSave
    \/ \E kinds \in [{TestNames[i] : i \in DOMAIN TestNames} -> ResponseKinds] :
            RunAllTests(kinds)
    \/ \E env \in UrlMainEnvs : UrlMainStart(env)
    \/ UrlMainInit
    \/ UrlMainGenerate
    \/ UrlMainSave

Spec == Init /\ [][Next]_vars

(***************************************************************************)
(* The classifier on every text of the pools.                              *)
(***************************************************************************)
ClassifierInit ==
    /\ script \in Generators
    /\ html_len = 2000
    /\ html_words \in (IF script = "html" THEN SUBSET HtmlWordPool ELSE {{}})
    /\ InitCommon

ClassifierNext ==
    \/ \E url \in Urls : SimulateApiCallUrl(url)
    \/ SimulateApiCallHtml

ClassifierSpec == ClassifierInit /\ [][ClassifierNext]_vars

(***************************************************************************)
(* _clean_results_for_json on JSON-like values: a dict (keys to values), a *)
(* list, or anything else (a leaf).                                        *)
(***************************************************************************)
Leaf(v) == [type |-> "leaf", value |-> v]
DictOf(f) == [type |-> "dict", entries |-> f]
ListOf(q) == [type |-> "list", elems |-> q]

ResultKeys == {"raw_response", "metadata"}

Leaves == {Leaf("text")}

DictsOver(T) == {DictOf(f) : f \in UNION {[K -> T] : K \in SUBSET ResultKeys}}

ListsOver(T) == {ListOf(q) : q \in UNION {[1..n -> T] : n \in 0..MaxListLen}}

\* the values nested one, two and three levels deep
Values1 == Leaves \cup DictsOver(Leaves) \cup ListsOver(Leaves)
Values2 == Leaves \cup DictsOver(Values1) \cup ListsOver(Values1)
Values3 == Leaves \cup DictsOver(Values2) \cup ListsOver(Values2)

RECURSIVE clean_results_for_json_dicts_only(_)
\* faulty variant: lists are returned as they are
clean_results_for_json_dicts_only(obj) ==
    IF obj.type = "dict"
    THEN DictOf([k \in DOMAIN obj.entries \ {"raw_response"} |->
                    clean_results_for_json_dicts_only(obj.entries[k])])
    ELSE obj

RECURSIVE clean_results_for_json(_)
\* ClaudeAPITester._clean_results_for_json(obj)
clean_results_for_json(obj) ==
    IF obj.type = "dict"
    THEN DictOf([k \in DOMAIN obj.entries \ {"raw_response"} |->
                    clean_results_for_json(obj.entries[k])])
    ELSE IF obj.type = "list"
    THEN ListOf([i \in DOMAIN obj.elems |-> clean_results_for_json(obj.elems[i])])
    ELSE obj

\* what _clean_results_for_json does to the object it is given: it builds
\* new dicts and lists and assigns to nothing
results_after_clean(obj) == obj

\* a results object is at hand
CleanInit ==
    /\ script = "api"
    /\ html_len = 0
    /\ html_words = {}
    /\ cache_enabled = TRUE
    /\ pricing = SonnetPrices
    /\ fs = FreshFs
    /\ run = [pc |-> "idle"]
    /\ \E obj \in Values3 : last = [op |-> "results", results |-> obj]

\* ClaudeAPITester.save_results(results, filename): what json.dump is given;
\* fault: the file cannot be opened, the exception is printed
SaveResults(fault) ==
    /\ script = "api"
    /\ last.op = "results"
    /\ last' = IF fault
               THEN [op |-> "save_results", given |-> last.results,
                     results |-> results_after_clean(last.results)]
               ELSE [op |-> "save_results", given |-> last.results,
                     results |-> results_after_clean(last.results),
                     dumped |-> clean_results_for_json(last.results)]
    /\ UNCHANGED <<script, cache_enabled, pricing, html_len, html_words, fs, run>>

CleanNext == \E fault \in BOOLEAN : SaveResults(fault)

CleanSpec == CleanInit /\ [][CleanNext]_vars

(***************************************************************************)
(* Vocabulary of the properties.                                           *)
(***************************************************************************)
\* the last call was the generators' calculator and returned a breakdown
GenResult ==
    last.op \in {"simulate", "calculate", "generate"} /\ last.outcome = "returned"

\* the last call was the API tester's calculator and returned a breakdown
ApiBreakdown == last.op = "extract_metadata" /\ "total_cost" \in DOMAIN last.costs

\* cost is count tokens billed at rate per million (cost in 1/200000 USD,
\* rate in cents: count * rate / 100 / 1000000 USD = cost / 200000 USD)
Billed(cost, count, rate) == cost * 500 = count * rate

\* n thousandths of a dollar
MilliUSD(n) == n * 200

NonNegativeRates(p) ==
    /\ p.input_per_million >= 0 /\ p.output_per_million >= 0
    /\ p.cache_write_per_million >= 0 /\ p.cache_read_per_million >= 0

PositiveRates(p) ==
    /\ p.input_per_million > 0 /\ p.output_per_million > 0
    /\ p.cache_write_per_million > 0 /\ p.cache_read_per_million > 0

\* the four counts of an API usage are non-negative
NonNegativeUsage(u) ==
    /\ u.input_tokens >= 0 /\ u.output_tokens >= 0
    /\ u.cache_creation_input_tokens >= 0 /\ u.cache_read_input_tokens >= 0

\* the percentage p, a fraction, lies in [0, 100]
PercentInRange(p) == p.den > 0 /\ 0 <= p.num /\ p.num <= 100 * p.den

\* C1: for non-negative token counts and non-negative rates, total_cost is
\* non-negative and is exactly the sum of the cache-read, cache-write, input
\* and output costs, in the API calculator and in the generators' calculator
\* (which has no cache-write component: it contributes 0), caching enabled
\* or disabled.
C1_TotalIsSumOfComponents ==
    /\ (ApiBreakdown /\ NonNegativeUsage(last.usage)) =>
        /\ last.costs.total_cost >= 0
        /\ last.costs.total_cost =
              last.costs.cache_read_cost + last.costs.cache_write_cost
              + last.costs.input_cost + last.costs.output_cost
    /\ (GenResult /\ NonNegativeRates(last.pricing)) =>
        /\ last.costs.total_cost >= 0
        /\ last.costs.total_cost =
              last.costs.cache_cost + 0
              + last.costs.input_cost + last.costs.output_cost

C1_Witness ==
    /\ ApiBreakdown /\ NonNegativeUsage(last.usage)
    /\ last.costs.cache_read_cost > 0 /\ last.costs.cache_write_cost > 0
    /\ last.costs.input_cost > 0 /\ last.costs.output_cost > 0

\* C2: with caching enabled the cache-read tokens are billed at the
\* cache_read rate, the cache-creation tokens at the cache_write rate and
\* only the non-cached input tokens at the input rate, each as
\* count * rate / 1,000,000; a call that writes N > 0 tokens into the cache
\* has N * cache_write / 1,000,000 in its total.
C2_CachedTokensBilledAtCacheRates ==
    /\ ApiBreakdown =>
        LET u == last.usage
            p == api_pricing[last.model]
            c == last.costs
        IN  /\ Billed(c.cache_read_cost, u.cache_read_input_tokens,
                      p.cache_read_per_million)
            /\ Billed(c.cache_write_cost, u.cache_creation_input_tokens,
                      p.cache_write_per_million)
            /\ Billed(c.input_cost, u.input_tokens, p.input_per_million)
            /\ u.cache_creation_input_tokens > 0 =>
                 Billed(c.total_cost - c.input_cost - c.output_cost
                        - c.cache_read_cost,
                        u.cache_creation_input_tokens, p.cache_write_per_million)
    /\ (GenResult /\ last.cache_enabled) =>
        /\ Billed(last.costs.cache_cost, last.input_tokens.cached_tokens,
                  last.pricing.cache_read_per_million)
        /\ Billed(last.costs.input_cost, last.input_tokens.non_cached_tokens,
                  last.pricing.input_per_million)

C2_Witness ==
    /\ ApiBreakdown
    /\ last.usage.cache_creation_input_tokens > 0
    /\ last.usage.cache_read_input_tokens > 0
    /\ last.costs.cache_write_cost > last.costs.cache_read_cost

\* C3 (as stated): with caching disabled, the cache costs are 0 and
\* total_cost is (input + cache-creation + cache-read tokens) at the input
\* rate plus output_cost, for every usage, the one the simulated API call
\* builds included.  (The generators' record has no cache-creation count.)
C3_NoCacheBillsAllInputTokens ==
    (GenResult /\ ~last.cache_enabled) =>
        /\ last.costs.cache_cost = 0
        /\ Billed(last.costs.total_cost - last.costs.output_cost,
                  last.input_tokens.non_cached_tokens + 0
                  + last.input_tokens.cached_tokens,
                  last.pricing.input_per_million)

\* C4: with caching enabled, cost_without_cache is (input + cache-creation
\* + cache-read tokens) at the input rate plus output_cost, for every usage
\* that reaches the calculator.
C4_CounterfactualRepricesCachedTokens ==
    (GenResult /\ last.cache_enabled) =>
        Billed(last.costs.cost_without_cache - last.costs.output_cost,
               last.input_tokens.non_cached_tokens + 0
               + last.input_tokens.cached_tokens,
               last.pricing.input_per_million)

C4_Witness ==
    /\ last.op = "simulate" /\ last.cache_enabled
    /\ last.input_tokens.cached_tokens > 0
    /\ last.costs.cost_without_cache > last.costs.total_cost

\* C5: with caching enabled, cost_reduction = cost_without_cache - total_cost
\* and cost_reduction_percent = cost_reduction / cost_without_cache * 100
\* when cost_without_cache > 0 and 0 otherwise; no division by zero happens.
C5_ReductionAndGuardedPercent ==
    (GenResult /\ last.cache_enabled) =>
        LET c == last.costs
        IN  /\ c.cost_reduction = c.cost_without_cache - c.total_cost
            /\ c.cost_reduction_percent.den # 0
            /\ c.cost_without_cache > 0 =>
                 c.cost_reduction_percent =
                     [num |-> c.cost_reduction * 100, den |-> c.cost_without_cache]
            /\ ~(c.cost_without_cache > 0) =>
                 c.cost_reduction_percent = [num |-> 0, den |-> 1]

C5_Witness ==
    /\ GenResult /\ last.cache_enabled
    /\ last.costs.cost_without_cache = 0

\* C6 (as stated): cost_reduction_percent is within [0, 100] for every
\* non-negative usage and every price table with positive rates, and is 0
\* when cost_without_cache = 0.
C6_PercentInRangeForPositiveRates ==
    (GenResult /\ PositiveRates(last.pricing)) =>
        /\ PercentInRange(last.costs.cost_reduction_percent)
        /\ last.costs.cost_without_cache = 0 =>
             last.costs.cost_reduction_percent.num = 0

\* C6 (amended): the same, for the price tables with positive rates whose
\* cache_read rate is not above their input rate.
C6_PercentInRangeWhenCacheReadIsCheaper ==
    (/\ GenResult
     /\ PositiveRates(last.pricing)
     /\ last.pricing.cache_read_per_million <= last.pricing.input_per_million) =>
        /\ PercentInRange(last.costs.cost_reduction_percent)
        /\ last.costs.cost_without_cache = 0 =>
             last.costs.cost_reduction_percent.num = 0

C6_Witness ==
    /\ GenResult /\ last.cache_enabled
    /\ PositiveRates(last.pricing)
    /\ last.pricing.cache_read_per_million <= last.pricing.input_per_million
    /\ last.costs.cost_reduction_percent.num > 0

\* C7 (as stated): for every usage with no cache-read and no cache-creation
\* tokens, total_cost with caching enabled equals total_cost with caching
\* disabled, on the same usage and prices.
C7_NothingCachedSameTotal ==
    (GenResult /\ last.input_tokens.cached_tokens = 0) =>
        calculate_costs(TRUE, last.pricing, last.input_tokens,
                        last.output_tokens).total_cost
        = calculate_costs(FALSE, last.pricing, last.input_tokens,
                          last.output_tokens).total_cost

\* C8: output_cost is output_tokens * output rate / 1,000,000, and is the
\* same with caching enabled and disabled for the same usage and prices.
C8_OutputCostIndependentOfCaching ==
    /\ GenResult =>
        /\ Billed(last.costs.output_cost, last.output_tokens,
                  last.pricing.output_per_million)
        /\ calculate_costs(TRUE, last.pricing, last.input_tokens,
                           last.output_tokens).output_cost
           = calculate_costs(FALSE, last.pricing, last.input_tokens,
                             last.output_tokens).output_cost
    /\ ApiBreakdown =>
        Billed(last.costs.output_cost, last.usage.output_tokens,
               api_pricing[last.model].output_per_million)

C8_Witness ==
    /\ GenResult /\ ~last.cache_enabled
    /\ last.output_tokens > 0 /\ last.costs.output_cost > 0
    /\ last.pricing.output_per_million # last.pricing.input_per_million

\* C9: at the prices 3.00 / 15.00 / 3.75 / 0.30 and the usage 19000 input,
\* 2000 output, 0 cache-creation, 20000 cache-read tokens with caching
\* enabled, the costs are cache read 0.006, input 0.057, output 0.03, total
\* 0.093, without cache 0.147, reduction 0.054, and the percentage rounds to
\* 36.7; the URL-based simulated API call produces that usage.
C9_ConcreteScenarioWithCache ==
    /\ (/\ GenResult /\ last.cache_enabled /\ last.pricing = SonnetPrices
        /\ last.input_tokens.non_cached_tokens = 19000
        /\ last.input_tokens.cached_tokens = 20000
        /\ last.output_tokens = 2000) =>
          LET c == last.costs
          IN  /\ c.cache_cost = MilliUSD(6)
              /\ c.input_cost = MilliUSD(57)
              /\ c.output_cost = MilliUSD(30)
              /\ c.total_cost = MilliUSD(93)
              /\ c.cost_without_cache = MilliUSD(147)
              /\ c.cost_reduction = MilliUSD(54)
              /\ c.cost_reduction_percent.den > 0
              /\ 3665 * c.cost_reduction_percent.den
                    <= 100 * c.cost_reduction_percent.num
              /\ 100 * c.cost_reduction_percent.num
                    < 3675 * c.cost_reduction_percent.den
    /\ (script = "url" /\ last.op = "simulate" /\ last.cache_enabled) =>
          /\ last.input_tokens.non_cached_tokens = 19000
          /\ last.input_tokens.cached_tokens = 20000
          /\ last.output_tokens = 2000

C9_Witness ==
    /\ script = "url" /\ last.op = "simulate"
    /\ last.cache_enabled /\ last.pricing = SonnetPrices

\* C10: at the same prices and usage with caching disabled, input_cost is
\* 0.117 (39000 tokens at the input rate), total_cost is 0.147, and the
\* savings fields are zero.
C10_ConcreteScenarioWithoutCache ==
    (/\ GenResult /\ ~last.cache_enabled /\ last.pricing = SonnetPrices
     /\ last.input_tokens.non_cached_tokens = 19000
     /\ last.input_tokens.cached_tokens = 20000
     /\ last.input_tokens.total_input_tokens = 39000
     /\ last.output_tokens = 2000) =>
        LET c == last.costs
        IN  /\ c.input_cost = MilliUSD(117)
            /\ c.total_cost = MilliUSD(147)
            /\ c.cost_reduction = 0
            /\ c.cost_reduction_percent.num = 0
            /\ c.monthly_savings_usd = 0 /\ c.yearly_savings_usd = 0
            /\ c.monthly_savings_jpy = 0 /\ c.yearly_savings_jpy = 0

C10_Witness ==
    /\ GenResult /\ ~last.cache_enabled /\ last.pricing = SonnetPrices
    /\ last.input_tokens.non_cached_tokens = 19000
    /\ last.input_tokens.cached_tokens = 20000
    /\ last.input_tokens.total_input_tokens = 39000
    /\ last.output_tokens = 2000

\* C11 (as stated): with caching disabled none of the counterfactual and
\* savings fields carries a non-zero value: cost_without_cache,
\* cost_reduction, cost_reduction_percent and the monthly and yearly savings
\* are all absent or all zero.  (The generators return all of them.)
C11_NoCounterfactualWithoutCache ==
    (GenResult /\ ~last.cache_enabled) =>
        LET c == last.costs
        IN  /\ c.cost_without_cache = 0
            /\ c.cost_reduction = 0
            /\ c.cost_reduction_percent.num = 0
            /\ c.monthly_savings_usd = 0 /\ c.yearly_savings_usd = 0
            /\ c.monthly_savings_jpy = 0 /\ c.yearly_savings_jpy = 0

\* C14 (as stated): a usage with a negative token count is rejected with an
\* InvalidUsage error and no cost breakdown is produced for it.
C14_NegativeUsageRejected ==
    (/\ last.op = "extract_metadata"
     /\ last.usage # EmptyDict
     /\ ~NonNegativeUsage(last.usage)) =>
        /\ last.outcome = "InvalidUsage"
        /\ "total_cost" \notin DOMAIN last.costs

\* C15 (as stated): a cost computation for a model without a price entry is
\* rejected with an error: it yields no cost breakdown and its caller sees a
\* failure, not a return value that it stores as the costs.
C15_UnknownModelRejected ==
    (/\ last.op = "extract_metadata"
     /\ last.usage # EmptyDict
     /\ last.model \notin DOMAIN api_pricing) =>
        /\ "total_cost" \notin DOMAIN last.costs
        /\ last.outcome # "returned"
        /\ last.costs = EmptyDict

\* C16: for the all-zero usage the calculators do not fail and every cost
\* component, total_cost, cost_without_cache, cost_reduction and
\* cost_reduction_percent is 0, with caching enabled or disabled.
C16_ZeroUsageCostsNothing ==
    /\ (/\ GenResult
        /\ last.input_tokens.cached_tokens = 0
        /\ last.input_tokens.non_cached_tokens = 0
        /\ last.input_tokens.total_input_tokens = 0
        /\ last.output_tokens = 0) =>
          LET c == last.costs
          IN  /\ c.cache_cost = 0 /\ c.input_cost = 0 /\ c.output_cost = 0
              /\ c.total_cost = 0
              /\ c.cost_without_cache = 0 /\ c.cost_reduction = 0
              /\ c.cost_reduction_percent.den # 0
              /\ c.cost_reduction_percent.num = 0
    /\ (/\ ApiBreakdown
        /\ last.usage.input_tokens = 0 /\ last.usage.output_tokens = 0
        /\ last.usage.cache_creation_input_tokens = 0
        /\ last.usage.cache_read_input_tokens = 0) =>
          LET c == last.costs
          IN  /\ last.outcome = "returned"
              /\ c.cache_read_cost = 0 /\ c.cache_write_cost = 0
              /\ c.input_cost = 0 /\ c.output_cost = 0 /\ c.total_cost = 0

C16_Witness ==
    /\ GenResult /\ last.cache_enabled /\ PositiveRates(last.pricing)
    /\ last.input_tokens.cached_tokens = 0
    /\ last.input_tokens.non_cached_tokens = 0
    /\ last.input_tokens.total_input_tokens = 0
    /\ last.output_tokens = 0


(***************************************************************************)
(* C12: in every result of the generator's calculator the monthly saving   *)
(* is the reduction times 50, the yearly saving is the monthly saving      *)
(* times 12, that is the reduction times 600, and the JPY savings are      *)
(* those amounts times 150; the header of a saved file states the same 50  *)
(* and 600 and carries the JPY savings of the reduction it prints.         *)
(***************************************************************************)
C12_SavingsExtrapolation ==
    /\ GenResult =>
        /\ last.costs.monthly_savings_usd = last.costs.cost_reduction * 50
        /\ last.costs.yearly_savings_usd = last.costs.monthly_savings_usd * 12
        /\ last.costs.yearly_savings_usd = last.costs.cost_reduction * 600
        /\ last.costs.monthly_savings_jpy = last.costs.monthly_savings_usd * 150
        /\ last.costs.yearly_savings_jpy = last.costs.yearly_savings_usd * 150
    /\ fs.file.written =>
        /\ fs.file.frontmatter.cost_efficiency.monthly_usage_assumption = 50
        /\ fs.file.frontmatter.cost_efficiency.yearly_usage_assumption = 600
        /\ fs.file.frontmatter.costs_jpy.monthly_savings =
              fs.file.frontmatter.costs_usd.cost_reduction * 50 * 150
        /\ fs.file.frontmatter.costs_jpy.yearly_savings =
              fs.file.frontmatter.costs_usd.cost_reduction * 600 * 150

C12_Witness ==
    /\ GenResult
    /\ last.costs.cost_reduction > 0
    /\ last.costs.yearly_savings_jpy = last.costs.cost_reduction * 90000

(***************************************************************************)
(* C13: the JPY total of every calculator result, of the generators and of *)
(* the API tester, is the total times 150, and the header of a saved file  *)
(* converts the reduction at the rate of its JPY total.                    *)
(***************************************************************************)
C13_SingleExchangeRate ==
    /\ GenResult => last.costs.total_cost_jpy = last.costs.total_cost * 150
    /\ ApiBreakdown => last.costs.total_cost_jpy = last.costs.total_cost * 150
    /\ fs.file.written =>
        /\ fs.file.frontmatter.costs_jpy.total_cost =
              fs.file.frontmatter.costs_usd.total_cost * 150
        /\ fs.file.frontmatter.costs_jpy.cost_reduction =
              fs.file.frontmatter.costs_usd.cost_reduction * 150

C13_Witness ==
    /\ fs.file.written
    /\ fs.file.frontmatter.costs_usd.cost_reduction > 0
    /\ fs.file.frontmatter.costs_jpy.total_cost > 0

(***************************************************************************)
(* C18: a step that computes costs changes neither the price table nor the *)
(* cache flag (the estimated cache size is assigned in the constructor     *)
(* only), and the token usage of a simulated or generated result is the    *)
(* record the calculator was given, next to the breakdown it returned and, *)
(* in a generation result, the processing time.                            *)
(***************************************************************************)
C18_CalculatorFrame ==
    /\ [](HasResult =>
            /\ last.result.token_usage.input_tokens = last.input_tokens
            /\ last.result.token_usage.output_tokens = last.output_tokens
            /\ last.result.costs = last.costs
            /\ (last.op = "generate" =>
                    "processing_time_seconds" \in DOMAIN last.result))
    /\ [][last' # last => (pricing' = pricing /\ cache_enabled' = cache_enabled)]_vars

C18_Witness ==
    /\ last.op = "generate"
    /\ last.outcome = "returned"
    /\ ~last.cache_enabled
    /\ last.pricing = HaikuPrices
    /\ last.result.token_usage.input_tokens.total_input_tokens > 0
    /\ "processing_time_seconds" \in DOMAIN last.result

(***************************************************************************)
(* C19: the classifier takes the first keyword test that matches, in a     *)
(* fixed order, and the generic set when none matches.  HTML-based:        *)
(* dotfiles/powershell, then github/actions, then python/javascript, over  *)
(* the lower-cased content.  URL-based: sios, then github, then qiita,     *)
(* over the lower-cased domain.  Every input gets one of the sets.         *)
(***************************************************************************)
Mentions(words, kw) == \E w \in words : Lower(w) = kw

C19_FirstMatchWins ==
    /\ (last.op = "simulate" /\ script = "html") =>
        LET t == last.result.content.template
            a == Mentions(html_words, "dotfiles") \/ Mentions(html_words, "powershell")
            b == Mentions(html_words, "github") \/ Mentions(html_words, "actions")
            c == Mentions(html_words, "python") \/ Mentions(html_words, "javascript")
        IN  /\ a => t = "dotfiles"
            /\ (~a /\ b) => t = "github"
            /\ (~a /\ ~b /\ c) => t = "language"
            /\ (~a /\ ~b /\ ~c) => t = "generic"
            /\ last.result.content \in
                  {DotfilesTemplates, GithubTemplates, LanguageTemplates, GenericTemplates}
    /\ (last.op = "simulate" /\ script = "url") =>
        LET t == last.result.content.template
            a == Mentions(last.source.domain, "sios")
            b == Mentions(last.source.domain, "github")
            c == Mentions(last.source.domain, "qiita")
        IN  /\ a => t = "dotfiles"
            /\ (~a /\ b) => t = "github"
            /\ (~a /\ ~b /\ c) => t = "qiita"
            /\ (~a /\ ~b /\ ~c) => t = "generic"
            /\ last.result.content \in
                  {DotfilesTemplates, GithubTemplates, QiitaTemplates, GenericTemplates}

C19_Witness ==
    /\ last.op = "simulate"
    /\ script = "html"
    /\ {"PowerShell", "GitHub", "python"} \subseteq html_words
    /\ last.result.content.template = "dotfiles"

(***************************************************************************)
(* C20: main() of the HTML-based script ends with exit code 1 whenever the *)
(* HTML file fails it: HTML_FILE unset, the file missing, the file empty.  *)
(***************************************************************************)
C20_HtmlFileFailureExitsOne ==
    (script = "html" /\ run.pc = "done"
        /\ run.env.html_file \in {"unset", "missing", "empty"})
        => run.exit_code = 1


\* C25 (as stated): every simulated run with caching enabled, at the prices
\* of the scripts, has a cost_reduction_percent that rounds to 37, in the
\* URL-based generator and for every HTML content size.
RoundsTo(p, n) == (2 * n - 1) * p.den <= 2 * p.num /\ 2 * p.num < (2 * n + 1) * p.den

C25_ReductionRoundsTo37 ==
    (/\ last.op \in {"simulate", "generate"}
     /\ last.outcome = "returned"
     /\ last.cache_enabled
     /\ last.pricing = SonnetPrices) =>
        RoundsTo(last.costs.cost_reduction_percent, 37)

\* C26 (as stated): in every usage record a simulated call builds, with the
\* cache on or off, non_cached_tokens is the sum of the raw categories and
\* total_input_tokens = cached_tokens + non_cached_tokens.
C26_UsageRecordConsistent ==
    (last.op \in {"simulate", "generate"} /\ last.outcome = "returned") =>
        LET t == last.input_tokens
            fetched == IF "web_fetch_tokens" \in DOMAIN t
                       THEN t.web_fetch_tokens ELSE t.html_content_tokens
        IN  /\ t.non_cached_tokens =
                  t.web_search_tokens + fetched + t.user_input_tokens
            /\ t.total_input_tokens = t.cached_tokens + t.non_cached_tokens


(***************************************************************************)
(* Vocabulary of main().                                                   *)
(***************************************************************************)
MainDone == run.pc = "done"

\* the constructor got as far as the system prompt and the prompt failed it
PromptFailure ==
    /\ run.init # "not_called"
    /\ script = "html" => run.env.html_file = "ok"
    /\ run.env.prompt \in {"missing", "empty"}

\* C21 (as stated): main ends with exit code 3 for every failure of the
\* system prompt (missing, or present but empty) and for nothing else, in the
\* URL-based and in the HTML-based script.
C21_PromptFailureExitsThree ==
    MainDone => (PromptFailure <=> run.exit_code = 3)

\* C22 (as stated): when save_to_file raises OSError, main ends with exit
\* code 2.
C22_SaveFailureExitsTwo ==
    (MainDone /\ fs.outcome = "OSError") => run.exit_code = 2

(***************************************************************************)
(* C23: save_to_file raises ValueError when the content, the file name or  *)
(* the source argument is empty, and that call leaves the output directory *)
(* and the output file as they were.                                       *)
(***************************************************************************)
C23_InvalidSaveHasNoEffect ==
    /\ [](fs.outcome # "none" =>
            ((~fs.args.content \/ ~fs.args.filename \/ fs.args.source = "")
                => fs.outcome = "ValueError"))
    /\ [][(fs' # fs /\ fs'.outcome = "ValueError") =>
            (fs'.dir = fs.dir /\ fs'.file = fs.file)]_vars

C23_Witness ==
    /\ fs.outcome = "ValueError"
    /\ fs.args.content /\ fs.args.filename /\ fs.args.source = ""
    /\ fs.dir
    /\ fs.file.written

C27_SaveOnlyAfterGeneration ==
    /\ (run.pc # "idle" /\ fs.outcome # "none") =>
        (last.op = "generate" /\ last.outcome = "returned")
    /\ (MainDone /\ run.exit_code = 0) =>
        (fs.outcome = "saved" /\ fs.file.written
            /\ fs.file.content = last.result.content)
    /\ (MainDone /\ run.init # "constructed") =>
        (run.exit_code # 0 /\ fs.outcome = "none" /\ last.op = "none")
    /\ (MainDone /\ last.op = "generate" /\ last.outcome = "error") =>
        (run.exit_code # 0 /\ fs.outcome = "none")

C27_Witness ==
    /\ MainDone
    /\ run.init = "constructed"
    /\ last.op = "generate"
    /\ last.outcome = "error"
    /\ run.env.fault = "none"
    /\ run.exit_code = 99


\* C28 (as stated): run_all_tests calls the three tests in the order basic
\* message, system prompt, prompt caching, goes on after a failed test, which
\* it records with success = False, error and error_type, and returns its
\* results without raising for every combination of outcomes, a successful
\* response with an unpriced model or without usage included.
C28_RunAllTestsAlwaysReturns ==
    last.op = "run_all_tests" =>
        /\ last.calls = <<"basic_message", "system_prompt", "prompt_caching">>
        /\ last.outcome = "returned"
        /\ \A n \in DOMAIN last.kinds :
              last.kinds[n] = "failed" =>
                  /\ ~last.results.tests[n].success
                  /\ {"error", "error_type"} \subseteq DOMAIN last.results.tests[n]


(***************************************************************************)
(* C29: what save_results serialises has no raw_response key at any depth  *)
(* of dicts and lists, has every other key and element of the given object *)
(* in its place and unchanged, the given object is not modified, and       *)
(* cleaning the cleaned object changes nothing.                            *)
(***************************************************************************)
RECURSIVE HasRawResponse(_)
HasRawResponse(obj) ==
    CASE obj.type = "dict" ->
            \/ "raw_response" \in DOMAIN obj.entries
            \/ \E k \in DOMAIN obj.entries : HasRawResponse(obj.entries[k])
      [] obj.type = "list" ->
            \E i \in DOMAIN obj.elems : HasRawResponse(obj.elems[i])
      [] OTHER -> FALSE

RECURSIVE KeptInPlace(_, _)
KeptInPlace(given, kept) ==
    /\ kept.type = given.type
    /\ CASE given.type = "dict" ->
              /\ DOMAIN kept.entries = DOMAIN given.entries \ {"raw_response"}
              /\ \A k \in DOMAIN kept.entries :
                    KeptInPlace(given.entries[k], kept.entries[k])
         [] given.type = "list" ->
              /\ Len(kept.elems) = Len(given.elems)
              /\ \A i \in DOMAIN kept.elems :
                    KeptInPlace(given.elems[i], kept.elems[i])
         [] OTHER -> kept = given

C29_RawResponsesRemoved ==
    (last.op = "save_results" /\ "dumped" \in DOMAIN last) =>
        /\ ~HasRawResponse(last.dumped)
        /\ KeptInPlace(last.given, last.dumped)
        /\ last.results = last.given
        /\ clean_results_for_json(last.dumped) = last.dumped

C29_Witness ==
    /\ last.op = "save_results"
    /\ "dumped" \in DOMAIN last
    /\ last.given.type = "dict"
    /\ "metadata" \in DOMAIN last.given.entries
    /\ last.given.entries["metadata"].type = "list"
    /\ Len(last.given.entries["metadata"].elems) = 1
    /\ HasRawResponse(last.given.entries["metadata"].elems[1])
    /\ last.dumped # last.given

====
